---- MODULE Spec2Model ----
(***************************************************************************)
(* Model of the positioned tokenizer of zspell_lsp (src/src/lexer.rs):     *)
(* CharPosIter (the positioned character stream) and Lexer (the word       *)
(* tokenizer, a StreamingIterator), and of the server that drives it       *)
(* (src/src/server.rs).  Spec runs one tokenizer step by step, PairSpec    *)
(* runs two tokenizers over one text, ServerSpec runs the message loop.    *)
(*                                                                         *)
(* A text is a sequence of characters drawn from a small alphabet that has *)
(* one representative of every class the code distinguishes:               *)
(*   "a"   an ASCII letter            (alphabetic, 1 byte in UTF-8)        *)
(*   "E2"  a letter such as e-acute   (alphabetic, 2 bytes in UTF-8)       *)
(*   "'"   the apostrophe             (1 byte)                             *)
(*   "1"   a digit                    (not alphabetic, 1 byte)             *)
(*   " "   a blank                    (not alphabetic, 1 byte)             *)
(*   "LF"  the line feed \n, "CR" the carriage return \r                   *)
(* Option<T> is modelled as a sequence of length 0 (None) or 1 (Some).     *)
(***************************************************************************)
EXTENDS Integers, Sequences, FiniteSets, TLC

\* Longest input text that is explored.
MaxLen == 4

\* Number of advance calls explored after the first exhaustion signal.
MaxExtra == 2

\* Number of get calls explored between two advance calls.
MaxGets == 2

Alphabet == {"a", "E2", "'", "1", " ", "LF", "CR"}

Texts == UNION {[1..n -> Alphabet] : n \in 0..MaxLen}

None == <<>>

Some(x) == <<x>>

\* char::is_alphabetic on the alphabet
is_alphabetic(c) == c \in {"a", "E2"}

\* char::len_utf8 on the alphabet
len_utf8(c) == IF c = "E2" THEN 2 ELSE 1

\* fn is_wordchar(c: char) -> bool
is_wordchar(c) == is_alphabetic(c) \/ c = "'"

(***************************************************************************)
(* str::lines: the text is cut after every \n; the \n is stripped from a   *)
(* piece and then one \r before it; a last piece without \n is kept as is; *)
(* the empty text has no lines.                                            *)
(***************************************************************************)
FirstLF(t) == IF \E i \in 1..Len(t) : t[i] = "LF"
              THEN CHOOSE i \in 1..Len(t) : t[i] = "LF" /\ \A j \in 1..(i-1) : t[j] # "LF"
              ELSE 0

StripCR(l) == IF Len(l) > 0 /\ l[Len(l)] = "CR" THEN SubSeq(l, 1, Len(l) - 1) ELSE l

RECURSIVE Lines(_)
Lines(t) == IF t = <<>> THEN <<>>
            ELSE IF FirstLF(t) = 0 THEN <<t>>
            ELSE <<StripCR(SubSeq(t, 1, FirstLF(t) - 1))>>
                 \o Lines(SubSeq(t, FirstLF(t) + 1, Len(t)))

\* byte length of a str
RECURSIVE ByteLen(_)
ByteLen(l) == IF l = <<>> THEN 0 ELSE len_utf8(Head(l)) + ByteLen(Tail(l))

\* str::char_indices: every char with the byte offset at which it starts
char_indices(l) == [i \in 1..Len(l) |-> [offset |-> ByteLen(SubSeq(l, 1, i - 1)), char |-> l[i]]]

\* str::is_char_boundary
is_char_boundary(l, o) == o = ByteLen(l) \/ \E i \in 1..Len(l) : char_indices(l)[i].offset = o

\* &line[b..e] is defined (it panics otherwise)
SliceOk(l, b, e) == b <= e /\ e <= ByteLen(l) /\ is_char_boundary(l, b) /\ is_char_boundary(l, e)

\* &line[b..e]: the chars of the line that start at a byte offset in [b, e)
Slice(l, b, e) == LET ci == char_indices(l)
                      S == {i \in 1..Len(l) : b <= ci[i].offset /\ ci[i].offset < e}
                  IN  [k \in 1..Cardinality(S) |->
                         l[CHOOSE i \in S : Cardinality({j \in S : j < i}) = k - 1]]

\* Position::default()
PositionDefault == [line |-> 0, character |-> 0]

\* CharPosIter::new with an empty first line taken for a text without lines
CharPosIterNewSkipsEmpty(t) ==
    IF Lines(t) = <<>> \/ Head(Lines(t)) = <<>> THEN None
    ELSE Some([lines        |-> Tail(Lines(t)),
               current_line |-> Head(Lines(t)),
               chars        |-> char_indices(Head(Lines(t))),
               position     |-> PositionDefault])

\* CharPosIter::new
CharPosIterNew(t) == IF Lines(t) = <<>> THEN None
                     ELSE Some([lines        |-> Tail(Lines(t)),
                                current_line |-> Head(Lines(t)),
                                chars        |-> char_indices(Head(Lines(t))),
                                position     |-> PositionDefault])

\* the arm Some((offset, char)) with the character index advanced by the
\* encoded length of the char
YieldCharCountsBytes(it) ==
    [item |-> Some([char     |-> Head(it.chars).char,
                    position |-> it.position,
                    offset   |-> Head(it.chars).offset]),
     iter |-> [it EXCEPT !.chars = Tail(@),
                         !.position.character = @ + len_utf8(Head(it.chars).char)]]

\* CharPosIter::next, the arm Some((offset, char)): the item and the iterator after it
YieldChar(it) ==
    [item |-> Some([char     |-> Head(it.chars).char,
                    position |-> it.position,
                    offset   |-> Head(it.chars).offset]),
     iter |-> [it EXCEPT !.chars = Tail(@), !.position.character = @ + 1]]

\* the arm Some(line) without self.position.line += 1
NextLineKeepsLine(it) ==
    [lines        |-> Tail(it.lines),
     current_line |-> Head(it.lines),
     chars        |-> char_indices(Head(it.lines)),
     position     |-> [line |-> it.position.line, character |-> 0]]

\* CharPosIter::next, the arm Some(line): the iterator once the next line is current
NextLine(it) ==
    [lines        |-> Tail(it.lines),
     current_line |-> Head(it.lines),
     chars        |-> char_indices(Head(it.lines)),
     position     |-> [line |-> it.position.line + 1, character |-> 0]]

\* CharPosIter::next without the reset of position.character on a new line
RECURSIVE IterNextNoReset(_)
IterNextNoReset(it) ==
    IF it.chars # <<>> THEN YieldChar(it)
    ELSE IF it.lines = <<>> THEN [item |-> None, iter |-> it]
    ELSE IterNextNoReset([NextLine(it) EXCEPT !.position.character = it.position.character])

\* CharPosIter::next that ends with self.chars.next() in place of self.next()
IterNextNoRetry(it) ==
    IF it.chars # <<>> THEN YieldChar(it)
    ELSE IF it.lines = <<>> THEN [item |-> None, iter |-> it]
    ELSE IF NextLine(it).chars # <<>> THEN YieldChar(NextLine(it))
    ELSE [item |-> None, iter |-> NextLine(it)]

\* CharPosIter::next: the item (an Option<CharPos>) and the iterator after the call
RECURSIVE IterNext(_)
IterNext(it) ==
    IF it.chars # <<>> THEN YieldChar(it)
    ELSE IF it.lines = <<>> THEN [item |-> None, iter |-> it]
    ELSE IterNext(NextLine(it))

\* Lexer::make_word_at_line
make_word_at_line(line, b, e) ==
    [text  |-> Slice(line, b.offset, e.offset),
     range |-> [start |-> b.position, end |-> e.position]]

VARIABLES
    text,          \* the document text the tokenizer is constructed over
    pc,            \* "new", "absent", "idle", "skip", "first", "scan", "finish", "panicked"; "off" outside Spec
    iter,          \* Lexer.iter: lines, current_line, chars, position
    current_word,  \* Lexer.current_word: Option<Word>
    begin,         \* advance: the begin marker (Option while not yet bound)
    current_line,  \* advance: the line captured after begin was found
    tmp,           \* advance: the tentative end marker
    end,           \* advance: the end marker
    yielded,       \* history: the CharPos values the stream has yielded, in order
    iter_done,     \* history: the stream has returned None
    tokens,        \* history: the words set by completed advance calls, in order
    slices,        \* history: for every word, the line and the byte range it was cut from
    started,       \* history: number of advance calls made
    exhausted,     \* history: an advance call has left no current word
    extra,         \* history: number of advance calls made after exhaustion
    got,           \* history: the values get has returned since the last advance call
    pair,          \* two tokenizers over one text (PairSpec)
    dict,          \* Server.dict: the words the dictionary accepts
    did_shutdown,  \* Server.did_shutdown
    did_exit,      \* Server.did_exit
    spc,           \* Server::run: "off", "init", "loop", "recv", "handle", "returned_ok", "returned_err", "panicked"
    message,       \* Server::run: the message received in this iteration (Option)
    out,           \* the messages sent on connection.sender since the last message was received
    nrecv,         \* history: number of messages received
    produced,      \* history: the words the lexer produced in the last make_diagnostics
    checked        \* history: the texts passed to dict.check in the last make_diagnostics

vars == <<text, pc, iter, current_word, begin, current_line, tmp, end,
          yielded, iter_done, tokens, slices, started, exhausted, extra, got,
          pair, dict, did_shutdown, did_exit, spc, message, out, nrecv, produced, checked>>

\* the state of the single tokenizer of Spec
lexvars == <<text, pc, iter, current_word, begin, current_line, tmp, end,
             yielded, iter_done, tokens, slices, started, exhausted, extra, got>>

\* the state of the server
srvvars == <<dict, did_shutdown, did_exit, spc, message, out, nrecv, produced, checked>>

locals == <<begin, current_line, tmp, end>>

NoIter == [lines |-> <<>>, current_line |-> <<>>, chars |-> <<>>, position |-> PositionDefault]

\* a tokenizer that has not been constructed
NoLexer == [state |-> "none", iter |-> NoIter, current_word |-> None,
            words |-> <<>>, exhausted |-> FALSE, extra |-> 0]

\* the pair of tokenizers is not part of the run
PairOff == pair = [text |-> <<>>, lx |-> <<NoLexer, NoLexer>>]

\* the server is not part of the run
ServerOff ==
    /\ dict = {}
    /\ did_shutdown = FALSE /\ did_exit = FALSE
    /\ spc = "off"
    /\ message = None
    /\ out = <<>>
    /\ nrecv = 0
    /\ produced = <<>>
    /\ checked = <<>>

Init ==
    /\ PairOff
    /\ ServerOff
    /\ got = <<>>
    /\ text \in Texts
    /\ pc = "new"
    /\ iter = NoIter
    /\ current_word = None
    /\ begin = None /\ current_line = <<>> /\ tmp = None /\ end = None
    /\ yielded = <<>>
    /\ iter_done = FALSE
    /\ tokens = <<>>
    /\ slices = <<>>
    /\ started = 0
    /\ exhausted = FALSE
    /\ extra = 0

\* Lexer::new(text)
New ==
    /\ pc = "new"
    /\ IF CharPosIterNew(text) = None
       THEN pc' = "absent" /\ iter' = iter
       ELSE pc' = "idle" /\ iter' = CharPosIterNew(text)[1]
    /\ current_word' = None
    /\ UNCHANGED <<text, locals, yielded, iter_done, tokens, slices, started, exhausted, extra>>
    /\ UNCHANGED <<got, pair, srvvars>>

\* the effect of one self.iter.next() on the stream and on its history
Pull(r) ==
    /\ iter' = r.iter
    /\ yielded' = yielded \o r.item
    /\ iter_done' = (iter_done \/ r.item = None)

\* a caller invokes advance
AdvanceCall ==
    /\ pc = "idle"
    /\ extra < MaxExtra
    /\ pc' = "skip"
    /\ started' = started + 1
    /\ extra' = IF exhausted THEN extra + 1 ELSE extra
    /\ UNCHANGED <<text, iter, current_word, locals, yielded, iter_done, tokens, slices, exhausted>>
    /\ got' = <<>>
    /\ UNCHANGED <<pair, srvvars>>

\* advance, one iteration of the loop that looks for begin
AdvanceSkip ==
    /\ pc = "skip"
    /\ LET r == IterNext(iter) IN
       /\ Pull(r)
       /\ IF r.item = None
          THEN /\ current_word' = None
               /\ pc' = "idle"
               /\ exhausted' = TRUE
               /\ UNCHANGED locals
          ELSE /\ IF is_wordchar(r.item[1].char)
                  THEN /\ begin' = r.item
                       /\ current_line' = r.iter.current_line
                       /\ pc' = "first"
                  ELSE /\ pc' = "skip"
                       /\ UNCHANGED <<begin, current_line>>
               /\ UNCHANGED <<current_word, exhausted, tmp, end>>
    /\ UNCHANGED <<text, tokens, slices, started, extra>>
    /\ UNCHANGED <<got, pair, srvvars>>

\* advance, the first step of 'find_end
AdvanceFirst ==
    /\ pc = "first"
    /\ LET r == IterNext(iter) IN
       /\ Pull(r)
       /\ IF r.item # None /\ is_wordchar(r.item[1].char)
          THEN tmp' = r.item /\ pc' = "scan" /\ end' = end
          ELSE end' = begin /\ pc' = "finish" /\ tmp' = tmp
    /\ UNCHANGED <<text, current_word, begin, current_line, tokens, slices, started, exhausted, extra>>
    /\ UNCHANGED <<got, pair, srvvars>>

\* advance, one iteration of the loop of 'find_end
AdvanceScan ==
    /\ pc = "scan"
    /\ LET r == IterNext(iter) IN
       /\ Pull(r)
       /\ IF r.item # None /\ is_wordchar(r.item[1].char)
          THEN tmp' = r.item /\ pc' = "scan" /\ end' = end
          ELSE end' = tmp /\ pc' = "finish" /\ tmp' = tmp
    /\ UNCHANGED <<text, current_word, begin, current_line, tokens, slices, started, exhausted, extra>>
    /\ UNCHANGED <<got, pair, srvvars>>

\* end.position.character += 1; end.offset += end.char.len_utf8()
BumpEnd(e) == [e EXCEPT !.position.character = @ + 1, !.offset = @ + len_utf8(e.char)]

\* advance, from the adjustment of end to the assignment of current_word
AdvanceFinish ==
    /\ pc = "finish"
    /\ LET e == BumpEnd(end[1]) IN
       IF SliceOk(current_line, begin[1].offset, e.offset)
       THEN /\ current_word' = Some(make_word_at_line(current_line, begin[1], e))
            /\ tokens' = Append(tokens, make_word_at_line(current_line, begin[1], e))
            /\ slices' = Append(slices, [line |-> current_line, from |-> begin[1].offset, to |-> e.offset])
            /\ pc' = "idle"
            /\ begin' = None /\ current_line' = <<>> /\ tmp' = None /\ end' = None
       ELSE /\ pc' = "panicked"
            /\ UNCHANGED <<current_word, tokens, slices, locals>>
    /\ UNCHANGED <<text, iter, yielded, iter_done, started, exhausted, extra>>
    /\ UNCHANGED <<got, pair, srvvars>>

\* Lexer::get: a read of current_word
Get ==
    /\ pc = "idle"
    /\ Len(got) < MaxGets
    /\ got' = Append(got, current_word)
    /\ UNCHANGED <<text, pc, iter, current_word, locals, yielded, iter_done, tokens,
                   slices, started, exhausted, extra, pair, srvvars>>

Next ==
    \/ New
    \/ Get
    \/ AdvanceCall
    \/ AdvanceSkip
    \/ AdvanceFirst
    \/ AdvanceScan
    \/ AdvanceFinish

Spec == Init /\ [][Next]_vars


\* every step is eventually taken: advance runs to its return, and the caller
\* (while let Some(word) = lexer.next()) keeps calling
FairSpec == Spec /\ WF_vars(Next)

(***************************************************************************)
(* Lexer::advance as one call: the loops of advance run to their end.      *)
(***************************************************************************)
\* the only element of a singleton set; Val({e : x \in {v}}) is "let x = v in e"
\* with v computed once, before e
Val(S) == CHOOSE x \in S : TRUE

\* advance, the loop that looks for begin: the last item pulled and the iterator
RECURSIVE SkipToBegin(_)
SkipToBegin(it) ==
    Val({IF r.item = None THEN r
         ELSE IF is_wordchar(r.item[1].char) THEN r
         ELSE SkipToBegin(r.iter) : r \in {IterNext(it)}})

\* advance, the loop of 'find_end: the end marker and the iterator
RECURSIVE FindEndLoop(_, _)
FindEndLoop(it, t) ==
    Val({IF r.item = None THEN [end |-> t, iter |-> r.iter]
         ELSE IF ~is_wordchar(r.item[1].char) THEN [end |-> t, iter |-> r.iter]
         ELSE FindEndLoop(r.iter, r.item[1]) : r \in {IterNext(it)}})

\* advance, the block 'find_end
FindEnd(it, b) ==
    Val({IF r.item = None THEN [end |-> b, iter |-> r.iter]
         ELSE IF is_wordchar(r.item[1].char) THEN FindEndLoop(r.iter, r.item[1])
         ELSE [end |-> b, iter |-> r.iter] : r \in {IterNext(it)}})

\* advance, from the binding of begin on: s is the item that holds begin and
\* the iterator after it
AdvanceFrom(l, s) ==
    Val({LET b == s.item[1]
             line == s.iter.current_line
             e == BumpEnd(f.end)
         IN  IF SliceOk(line, b.offset, e.offset)
             THEN [l EXCEPT !.iter = f.iter,
                            !.current_word = Some(make_word_at_line(line, b, e)),
                            !.words = Append(@, make_word_at_line(line, b, e))]
             ELSE [l EXCEPT !.iter = f.iter, !.state = "panicked"]
         : f \in {FindEnd(s.iter, s.item[1])}})

\* Lexer::advance on a tokenizer l: the tokenizer after the call
advance(l) ==
    Val({IF s.item = None
         THEN [l EXCEPT !.iter = s.iter, !.current_word = None, !.exhausted = TRUE,
                        !.extra = IF l.exhausted THEN @ + 1 ELSE @]
         ELSE AdvanceFrom(l, s) : s \in {SkipToBegin(l.iter)}})

\* Lexer::new as a value: the tokenizer over text t
LexerNew(t) ==
    IF CharPosIterNew(t) = None THEN [NoLexer EXCEPT !.state = "absent"]
    ELSE [NoLexer EXCEPT !.state = "idle", !.iter = CharPosIterNew(t)[1]]

(***************************************************************************)
(* Two tokenizers over the same text, their calls interleaved.             *)
(***************************************************************************)
\* a write through &mut self that reaches every tokenizer
StoreShared(lx, i, v) == [j \in DOMAIN lx |-> v]

\* a write through &mut self: the fields of tokenizer i get the value v
Store(lx, i, v) == [lx EXCEPT ![i] = v]

PairInit ==
    /\ pair \in {[text |-> t, lx |-> <<NoLexer, NoLexer>>] : t \in Texts}
    /\ ServerOff
    /\ got = <<>>
    /\ text = <<>>
    /\ pc = "off"
    /\ iter = NoIter
    /\ current_word = None
    /\ begin = None /\ current_line = <<>> /\ tmp = None /\ end = None
    /\ yielded = <<>>
    /\ iter_done = FALSE
    /\ tokens = <<>>
    /\ slices = <<>>
    /\ started = 0
    /\ exhausted = FALSE
    /\ extra = 0

\* Lexer::new(text) for tokenizer i
PairNew(i) ==
    /\ pair.lx[i].state = "none"
    /\ pair' = [pair EXCEPT !.lx = Store(@, i, LexerNew(pair.text))]
    /\ UNCHANGED <<lexvars, srvvars>>

\* one advance call on tokenizer i
PairAdvance(i) ==
    /\ pair.lx[i].state = "idle"
    /\ pair.lx[i].extra < MaxExtra
    /\ pair' = [pair EXCEPT !.lx = Store(@, i, advance(pair.lx[i]))]
    /\ UNCHANGED <<lexvars, srvvars>>

PairNext ==
    \/ \E i \in 1..2 : PairNew(i)
    \/ \E i \in 1..2 : PairAdvance(i)

PairSpec == PairInit /\ [][PairNext]_vars

(***************************************************************************)
(* The server (src/src/server.rs): Server::run receives messages and       *)
(* answers document notifications with diagnostics.                        *)
(***************************************************************************)
\* Longest document text a message carries.
SrvMaxLen == 3

\* Number of messages the loop receives.
MaxMsgs == 2

SrvAlphabet == {"a", "E2", " ", "LF"}

SrvTexts == UNION {[1..n -> SrvAlphabet] : n \in 0..SrvMaxLen}

Uris == {"file:///a", "file:///b"}

\* the dictionaries the server is constructed with, each as the set of words it accepts
Dicts == {{}, {<<"a">>}, {<<"a">>, <<"E2">>, <<"a", "a">>}}

\* Dictionary::check
check(d, w) == w \in d

\* params that do not deserialize, and the params of messages that carry none
NoParams == [ok |-> FALSE, uri |-> "", texts |-> <<>>]

\* DidOpenTextDocumentParams (texts holds text_document.text) and
\* DidChangeTextDocumentParams (texts holds the texts of content_changes)
DocParams == {[ok |-> TRUE, uri |-> u, texts |-> <<t>>] : u \in Uris, t \in SrvTexts}

NoChangeParams == {[ok |-> TRUE, uri |-> u, texts |-> <<>>] : u \in Uris}

\* lsp_server::Message
Messages ==
    {[kind |-> "notification", method |-> "textDocument/didOpen", params |-> q] :
        q \in DocParams \cup {NoParams}}
    \cup
    {[kind |-> "notification", method |-> "textDocument/didChange", params |-> q] :
        q \in DocParams \cup NoChangeParams \cup {NoParams}}
    \cup
    {[kind |-> "notification", method |-> m, params |-> NoParams] :
        m \in {"shutdown", "exit", "initialized"}}
    \cup
    {[kind |-> "request", method |-> m, params |-> NoParams] :
        m \in {"shutdown", "textDocument/hover"}}
    \cup
    {[kind |-> "response", method |-> "", params |-> NoParams]}

\* the Diagnostic that make_diagnostics pushes for a word
DiagnosticOf(w) ==
    [range |-> w.range, message |-> "Incorrect spelling", severity |-> "ERROR"]

\* make_diagnostics, the condition of the push, without the negation
MisspelledNoNeg(d, w) == check(d, w.text)

\* make_diagnostics, the condition of the push: !self.dict.check(word.text)
Misspelled(d, w) == ~check(d, w.text)

\* make_diagnostics, the body of the loop for the word w: acc holds the words
\* seen, the texts checked and the diagnostics pushed so far
LoopBody(d, w, acc) ==
    [acc EXCEPT !.produced = Append(@, w),
                !.checked = Append(@, w.text),
                !.diagnostics = IF Misspelled(d, w) THEN Append(@, DiagnosticOf(w)) ELSE @]

\* make_diagnostics, the loop while let Some(word) = lexer.next()
RECURSIVE DrainLoop(_, _, _)
DrainLoop(d, l, acc) ==
    Val({IF l2.state = "panicked" THEN [acc EXCEPT !.panicked = TRUE]
         ELSE IF l2.current_word = None THEN acc
         ELSE Val({DrainLoop(d, l2, acc2) : acc2 \in {LoopBody(d, l2.current_word[1], acc)}})
         : l2 \in {advance(l)}})

\* Server::make_diagnostics: the response (Option<Notification>) and what the call did
make_diagnostics(d, uri, t) ==
    Val({IF lexer.state = "absent"
         THEN [panicked |-> FALSE, response |-> None, produced |-> <<>>, checked |-> <<>>]
         ELSE Val({[panicked |-> r.panicked,
                    response |-> IF r.panicked THEN None
                                 ELSE Some([method      |-> "textDocument/publishDiagnostics",
                                            uri         |-> uri,
                                            diagnostics |-> r.diagnostics,
                                            version     |-> None]),
                    produced |-> r.produced,
                    checked  |-> r.checked]
                   : r \in {DrainLoop(d, lexer,
                                      [panicked |-> FALSE, produced |-> <<>>,
                                       checked |-> <<>>, diagnostics |-> <<>>])}})
         : lexer \in {LexerNew(t)}})

\* handle_notification, the flags: every method sets did_shutdown and did_exit
\* that names the end of the session
FlagsAfterExitToo(method, f) ==
    IF method \in {"shutdown", "exit"} THEN [did_shutdown |-> TRUE, did_exit |-> TRUE] ELSE f

\* handle_notification, the flags did_shutdown and did_exit after the call
FlagsAfter(method, f) ==
    IF method = "shutdown" THEN [did_shutdown |-> TRUE, did_exit |-> TRUE] ELSE f

\* the result of a call that does nothing
Nothing(status) ==
    [status |-> status, response |-> None, produced |-> <<>>, checked |-> <<>>]

\* the result of a call that ends in make_diagnostics
Diagnosed(r) ==
    [status   |-> IF r.panicked THEN "panic" ELSE "ok",
     response |-> r.response, produced |-> r.produced, checked |-> r.checked]

\* Server::handle_notification: status "ok" (Ok), "err" (Err) or "panic", and the response
handle_notification(n, d) ==
    IF n.method = "textDocument/didOpen"
    THEN IF ~n.params.ok THEN Nothing("err")
         ELSE Diagnosed(make_diagnostics(d, n.params.uri, n.params.texts[1]))
    ELSE IF n.method = "textDocument/didChange"
    THEN IF ~n.params.ok THEN Nothing("err")
         ELSE IF n.params.texts = <<>> THEN Nothing("panic")
         ELSE Diagnosed(make_diagnostics(d, n.params.uri, n.params.texts[1]))
    ELSE Nothing("ok")

\* Server::new(dict), before run is called
ServerInit ==
    /\ dict \in Dicts
    /\ did_shutdown = FALSE /\ did_exit = FALSE
    /\ spc = "init"
    /\ message = None
    /\ out = <<>>
    /\ nrecv = 0
    /\ produced = <<>>
    /\ checked = <<>>
    /\ PairOff
    /\ got = <<>>
    /\ text = <<>>
    /\ pc = "off"
    /\ iter = NoIter
    /\ current_word = None
    /\ begin = None /\ current_line = <<>> /\ tmp = None /\ end = None
    /\ yielded = <<>>
    /\ iter_done = FALSE
    /\ tokens = <<>>
    /\ slices = <<>>
    /\ started = 0
    /\ exhausted = FALSE
    /\ extra = 0

\* run, up to the loop: the connection is made and initialize succeeds
Initialize ==
    /\ spc = "init"
    /\ spc' = "loop"
    /\ UNCHANGED <<lexvars, pair, dict, did_shutdown, did_exit, message, out, nrecv,
                   produced, checked>>

\* run, up to the loop: initialize fails and run returns the error
InitializeFails ==
    /\ spc = "init"
    /\ spc' = "returned_err"
    /\ UNCHANGED <<lexvars, pair, dict, did_shutdown, did_exit, message, out, nrecv,
                   produced, checked>>

\* run: while !self.did_exit, at the start of an iteration
LoopTest ==
    /\ spc = "loop"
    /\ spc' = IF did_exit THEN "returned_ok" ELSE "recv"
    /\ message' = None
    /\ out' = <<>>
    /\ produced' = <<>>
    /\ checked' = <<>>
    /\ UNCHANGED <<lexvars, pair, dict, did_shutdown, did_exit, nrecv>>

\* run: connection.receiver.recv() returns a message
Recv ==
    /\ spc = "recv"
    /\ nrecv < MaxMsgs
    /\ \E m \in Messages : message' = Some(m)
    /\ nrecv' = nrecv + 1
    /\ spc' = "handle"
    /\ UNCHANGED <<lexvars, pair, dict, did_shutdown, did_exit, out, produced, checked>>

\* run: connection.receiver.recv() fails (the channel is closed)
RecvFails ==
    /\ spc = "recv"
    /\ spc' = "returned_err"
    /\ UNCHANGED <<lexvars, pair, dict, did_shutdown, did_exit, message, out, nrecv,
                   produced, checked>>

\* run: the match on the message: handle_notification and the send of its response
Handle ==
    /\ spc = "handle"
    /\ LET m == message[1] IN
       IF m.kind = "notification"
       THEN \E r \in {handle_notification(m, dict)} :
            LET f == FlagsAfter(m.method, [did_shutdown |-> did_shutdown, did_exit |-> did_exit])
            IN  /\ did_shutdown' = f.did_shutdown
                /\ did_exit' = f.did_exit
                /\ out' = out \o r.response
                /\ produced' = r.produced
                /\ checked' = r.checked
                /\ spc' = IF r.status = "ok" THEN "loop"
                          ELSE IF r.status = "err" THEN "returned_err"
                          ELSE "panicked"
       ELSE /\ spc' = "loop"
            /\ UNCHANGED <<did_shutdown, did_exit, out, produced, checked>>
    /\ UNCHANGED <<lexvars, pair, dict, message, nrecv>>

ServerNext ==
    \/ Initialize
    \/ InitializeFails
    \/ LoopTest
    \/ Recv
    \/ RecvFails
    \/ Handle

ServerSpec == ServerInit /\ [][ServerNext]_vars

(***************************************************************************)
(* Vocabulary of the properties                                            *)
(***************************************************************************)
\* the lines of the document
DocLines == Lines(text)

\* the word-constituent characters of a text, in order
WordChars(t) == SelectSeq(t, is_wordchar)

\* the texts of a sequence of words, concatenated
RECURSIVE ConcatTexts(_)
ConcatTexts(ws) == IF ws = <<>> THEN <<>> ELSE Head(ws).text \o ConcatTexts(Tail(ws))

\* lexicographic order on positions
PosLE(p, q) == p.line < q.line \/ (p.line = q.line /\ p.character <= q.character)

\* the number of scalars of a line that start before byte offset o
ScalarsBefore(l, o) == Cardinality({i \in 1..Len(l) : char_indices(l)[i].offset < o})

\* the longest prefix of a line that consists of word-constituent characters
RECURSIVE WordPrefix(_)
WordPrefix(l) == IF l = <<>> \/ ~is_wordchar(Head(l)) THEN <<>>
                 ELSE <<Head(l)>> \o WordPrefix(Tail(l))

\* some word has been produced whose end marker was taken on a later line
\* than its begin marker
CrossedLine == \E i \in 1..Len(tokens) : tokens[i].range.start.line # tokens[i].range.end.line

(***************************************************************************)
(* C1: every token produced by advance has range.start.line equal to       *)
(* range.end.line, also when a word character ends a line and the next     *)
(* line starts with a word character.                                      *)
(***************************************************************************)
C1_SameLine ==
    \A i \in 1..Len(tokens) : tokens[i].range.start.line = tokens[i].range.end.line

(***************************************************************************)
(* C2: the line boundary is an implicit delimiter: after a full drain,     *)
(* every line that starts with a word character has a token that starts    *)
(* at character 0 of that line and whose text is the run of word           *)
(* characters at the start of the line (it is not merged into a token of   *)
(* an earlier line, and it is not discarded).                              *)
(***************************************************************************)
C2_LineBoundaryDelimits ==
    exhausted =>
        \A n \in 1..Len(DocLines) :
            WordPrefix(DocLines[n]) # <<>> =>
                \E i \in 1..Len(tokens) :
                    /\ tokens[i].range.start = [line |-> n - 1, character |-> 0]
                    /\ tokens[i].text = WordPrefix(DocLines[n])

(***************************************************************************)
(* C3: after a full drain the token texts, concatenated in order, are      *)
(* exactly the word characters of the text in document order.              *)
(***************************************************************************)
C3_ConcatIsWordChars ==
    exhausted => ConcatTexts(tokens) = WordChars(text)

(***************************************************************************)
(* C4: advance never faults: when make_word_at_line slices the anchor      *)
(* line, begin.offset <= end.offset <= byte length of the line and both    *)
(* offsets are character boundaries.                                       *)
(***************************************************************************)
C4_NoFault ==
    /\ pc # "panicked"
    /\ pc = "finish" =>
          SliceOk(current_line, begin[1].offset, BumpEnd(end[1]).offset)

(***************************************************************************)
(* C6: for every token, start <= end in (line, character) order, and       *)
(* end.character - start.character is the number of scalars of the text;   *)
(* the text is never empty.                                                *)
(***************************************************************************)
C6_RangeLength ==
    \A i \in 1..Len(tokens) :
        /\ PosLE(tokens[i].range.start, tokens[i].range.end)
        /\ tokens[i].range.end.character - tokens[i].range.start.character
              = Len(tokens[i].text)
        /\ tokens[i].text # <<>>

(***************************************************************************)
(* C7: every token is a maximal run of word characters on one line: all    *)
(* its characters are word characters, and the character before its start  *)
(* and the character after its last character on that line, when they      *)
(* exist, are delimiters.                                                  *)
(***************************************************************************)
C7_MaximalRun ==
    \A i \in 1..Len(tokens) :
        LET w == tokens[i]
            l == slices[i].line
            first == ScalarsBefore(l, slices[i].from) + 1
            last  == ScalarsBefore(l, slices[i].to)
        IN  /\ \A k \in 1..Len(w.text) : is_wordchar(w.text[k])
            /\ first > 1 => ~is_wordchar(l[first - 1])
            /\ last < Len(l) => ~is_wordchar(l[last + 1])

(***************************************************************************)
(* C5: for every token, range.start is the place of the token's text in    *)
(* the document: start.line is the index of the line the text was cut      *)
(* from, counting empty lines, and start.character is the number of        *)
(* scalars of that line before the text; the character at that place is a  *)
(* word character and the text, when not empty, starts with it.            *)
(***************************************************************************)
C5_StartIsFirstChar ==
    \A i \in 1..Len(tokens) :
        LET w == tokens[i]
            s == w.range.start
        IN  /\ s.line < Len(DocLines)
            /\ DocLines[s.line + 1] = slices[i].line
            /\ s.character = ScalarsBefore(slices[i].line, slices[i].from)
            /\ s.character < Len(DocLines[s.line + 1])
            /\ is_wordchar(DocLines[s.line + 1][s.character + 1])
            /\ s.character + Len(w.text) <= Len(DocLines[s.line + 1])
            /\ w.text = SubSeq(DocLines[s.line + 1], s.character + 1, s.character + Len(w.text))

\* a token has been cut from a line that follows an empty first line, behind a
\* two-byte letter and a delimiter of that line
C5_Witness ==
    /\ Len(DocLines) = 2
    /\ DocLines[1] = <<>>
    /\ ~CrossedLine
    /\ \E i \in 1..Len(tokens) :
          /\ tokens[i].range.start.line = 1
          /\ tokens[i].range.start.character = 2
          /\ slices[i].from = 3
          /\ tokens[i].text # <<>>

(***************************************************************************)
(* C8: exhaustion is sticky: once an advance call has left no current      *)
(* token, no later step sets a current token or produces a token; and once *)
(* the character stream has returned none, it never yields a value again.  *)
(***************************************************************************)
C8_ExhaustionSticky ==
    [][/\ exhausted => (exhausted' /\ current_word' = None /\ tokens' = tokens)
       /\ iter_done => (iter_done' /\ yielded' = yielded)]_vars

\* further advance calls have returned after the first exhaustion of a
\* tokenizer that had produced a token
C8_Witness ==
    /\ exhausted
    /\ extra = MaxExtra
    /\ pc = "idle"
    /\ tokens # <<>>
    /\ started = Len(tokens) + 1 + MaxExtra

(***************************************************************************)
(* C9: Lexer::new returns no tokenizer exactly when the text is empty (it  *)
(* has no lines), and then no token is produced; for any other text, also  *)
(* one that is only a line terminator, it returns a tokenizer with no      *)
(* current token, at position (0,0), before the first character of the     *)
(* first line.                                                             *)
(***************************************************************************)
C9_NewAbsentIffEmpty ==
    /\ pc # "new" => ((pc = "absent") <=> (text = <<>>))
    /\ pc = "absent" => (tokens = <<>> /\ current_word = None /\ started = 0)
    /\ (pc = "idle" /\ started = 0) =>
          /\ current_word = None
          /\ iter.position = [line |-> 0, character |-> 0]
          /\ yielded = <<>>
          /\ iter.current_line = DocLines[1]
          /\ Len(iter.chars) = Len(DocLines[1])
          /\ Len(iter.lines) = Len(DocLines) - 1

\* a tokenizer has been constructed over a text that is only a line terminator
C9_Witness ==
    /\ text \in {<<"LF">>, <<"CR", "LF">>}
    /\ pc = "idle"
    /\ started = 0
    /\ iter.current_line = <<>>

(***************************************************************************)
(* C10: draining terminates: repeated advance calls reach exhaustion, after*)
(* at most (number of word characters + 1) calls, and the characters that  *)
(* the stream yields are the characters of the lines, each once, in order. *)
(***************************************************************************)
RECURSIVE Flatten(_)
Flatten(ls) == IF ls = <<>> THEN <<>> ELSE Head(ls) \o Flatten(Tail(ls))

C10_DrainTerminates ==
    /\ <>(pc = "absent" \/ exhausted)
    /\ [](exhausted => started - extra <= Len(WordChars(text)) + 1)
    /\ [](/\ Len(yielded) <= Len(Flatten(DocLines))
          /\ \A k \in 1..Len(yielded) : yielded[k].char = Flatten(DocLines)[k])

(***************************************************************************)
(* C11: tokens are produced in document order without overlap: of two      *)
(* tokens produced by successive advance calls, the end of the earlier is  *)
(* at or before the start of the later in (line, character) order.         *)
(***************************************************************************)
C11_TokensInOrder ==
    \A i \in 1..(Len(tokens) - 1) :
        PosLE(tokens[i].range.end, tokens[i + 1].range.start)

\* a token of one line has been followed by a token of a later line
C11_Witness ==
    /\ Len(tokens) = 2
    /\ ~CrossedLine
    /\ tokens[1].range.end.line < tokens[2].range.start.line
    /\ tokens[2].range.start.character > 0

(***************************************************************************)
(* C14: every character the stream yields carries the index of its line,   *)
(* the number of scalars before it on that line and its byte offset within *)
(* that line; the characters yielded are those of the text without its     *)
(* line terminators, in order; a step of the stream leaves the character   *)
(* index alone, raises it by one on the same line, or moves to a later     *)
(* line with the index counted from 0 again.                               *)
(***************************************************************************)
\* the text position i holds a line terminator (\n, or the \r of \r\n)
IsTerminator(t, i) ==
    \/ t[i] = "LF"
    \/ t[i] = "CR" /\ i < Len(t) /\ t[i + 1] = "LF"

\* the text positions of line i's characters that precede position i
SameLineBefore(t, i) ==
    {j \in 1..(i - 1) : ~IsTerminator(t, j) /\ \A k \in j..(i - 1) : t[k] # "LF"}

RECURSIVE SumLen(_, _)
SumLen(t, S) == IF S = {} THEN 0
                ELSE LET j == CHOOSE x \in S : TRUE
                     IN  len_utf8(t[j]) + SumLen(t, S \ {j})

\* the stamp the character at text position i is to carry
StampAt(t, i) ==
    [char     |-> t[i],
     position |-> [line      |-> Cardinality({j \in 1..(i - 1) : t[j] = "LF"}),
                   character |-> Cardinality(SameLineBefore(t, i))],
     offset   |-> SumLen(t, SameLineBefore(t, i))]

\* the text positions that are not line terminators, in order
RECURSIVE Kept(_, _)
Kept(t, i) == IF i > Len(t) THEN <<>>
              ELSE (IF IsTerminator(t, i) THEN <<>> ELSE <<i>>) \o Kept(t, i + 1)

C14_StampsExact ==
    /\ [](/\ Len(yielded) <= Len(Kept(text, 1))
          /\ \A k \in 1..Len(yielded) : yielded[k] = StampAt(text, Kept(text, 1)[k])
          /\ iter_done => Len(yielded) = Len(Kept(text, 1)))
    /\ [][\/ iter'.position = iter.position
          \/ /\ iter'.position.line = iter.position.line
             /\ iter'.position.character = iter.position.character + 1
          \/ /\ iter'.position.line > iter.position.line
             /\ iter'.position.character = Len(iter'.current_line) - Len(iter'.chars)
             /\ iter'.position.character \in {0, 1}]_vars

\* the stream has run dry after yielding, on a line behind an empty line, a
\* character that follows a two-byte character
C14_Witness ==
    /\ iter_done
    /\ \E k \in 1..Len(yielded) :
          /\ yielded[k].position.line = 2
          /\ yielded[k].position.character = 1
          /\ yielded[k].offset = 2

(***************************************************************************)
(* C15: every advance call either sets exactly one current token or        *)
(* signals exhaustion; get returns none before the first advance and the   *)
(* token set by the most recent advance afterwards, the same value on      *)
(* every call, and it changes neither the stream cursor nor the current    *)
(* token.                                                                  *)
(***************************************************************************)
C15_AdvanceSetsOneGetReads ==
    /\ [](pc \in {"idle", "panicked"} =>
            started = Len(tokens) + (IF exhausted THEN 1 + extra ELSE 0))
    /\ [](pc = "idle" =>
            /\ \A k \in 1..Len(got) : got[k] = current_word
            /\ started = 0 => current_word = None
            /\ (started > 0 /\ ~exhausted) => current_word = Some(tokens[Len(tokens)])
            /\ exhausted => current_word = None)
    /\ [][Len(got') > Len(got) => (iter' = iter /\ current_word' = current_word)]_vars

Handled == message # None /\ spc \in {"loop", "returned_err", "panicked"}

\* a didOpen or didChange notification that carries a document text
IsDoc(m) ==
    /\ m.kind = "notification"
    /\ m.method \in {"textDocument/didOpen", "textDocument/didChange"}
    /\ m.params.ok
    /\ m.params.texts # <<>>

\* the document text of such a notification
DocText(m) == m.params.texts[1]

\* the words a tokenizer produces when it is advanced until it stops
RECURSIVE DrainWords(_)
DrainWords(l) ==
    IF l.state # "idle" \/ l.exhausted THEN l.words
    ELSE Val({DrainWords(l2) : l2 \in {advance(l)}})

\* the diagnostics of the words of ws that the dictionary rejects, in order
RECURSIVE FailingDiagnostics(_, _)
FailingDiagnostics(d, ws) ==
    IF ws = <<>> THEN <<>>
    ELSE (IF check(d, Head(ws).text) THEN <<>>
          ELSE <<[range |-> Head(ws).range, message |-> "Incorrect spelling",
                  severity |-> "ERROR"]>>)
         \o FailingDiagnostics(d, Tail(ws))

\* a message that is not a notification, or a notification of the arms
\* "exit" and _ of handle_notification
Quiet(m) == m.kind # "notification" \/ m.method \in {"exit", "initialized"}

(***************************************************************************)
(* C13: for a document text with at least one line, make_diagnostics       *)
(* passes to check the text of every token the tokenizer produces, once    *)
(* and in order, and the list it publishes holds, in token order, one      *)
(* diagnostic for every token whose text fails check and nothing else.     *)
(***************************************************************************)
C13_DiagnosticsAreFailingTokens ==
    (Handled /\ IsDoc(message[1]) /\ Lines(DocText(message[1])) # <<>>) =>
        /\ produced = DrainWords(LexerNew(DocText(message[1])))
        /\ Len(checked) = Len(produced)
        /\ \A k \in 1..Len(produced) : checked[k] = produced[k].text
        /\ spc = "loop" =>
              /\ Len(out) = 1
              /\ out[1].diagnostics = FailingDiagnostics(dict, produced)
              /\ Len(out[1].diagnostics)
                    = Cardinality({k \in 1..Len(produced) : produced[k].text \notin dict})

\* a list has been published for a text of two tokens of which the dictionary
\* accepts one
C13_Witness ==
    /\ spc = "loop"
    /\ Len(produced) = 2
    /\ produced[1].text \in dict
    /\ produced[2].text \notin dict
    /\ Len(out) = 1
    /\ Len(out[1].diagnostics) = 1
    /\ out[1].diagnostics[1].range = produced[2].range

(***************************************************************************)
(* C16: a didOpen or didChange whose text is empty is no fault and gives   *)
(* what a text with lines and no words gives: one publishDiagnostics       *)
(* notification for that URI with an empty list of diagnostics.            *)
(***************************************************************************)
C16_EmptyTextPublishesEmptyList ==
    (Handled /\ IsDoc(message[1]) /\ DocText(message[1]) = <<>>) =>
        /\ spc = "loop"
        /\ out = <<[method      |-> "textDocument/publishDiagnostics",
                    uri         |-> message[1].params.uri,
                    diagnostics |-> <<>>,
                    version     |-> None]>>

(***************************************************************************)
(* C17: a handled didOpen or didChange whose text has at least one line    *)
(* puts exactly one publishDiagnostics notification for its URI on the     *)
(* wire before the next message is received, its list computed from that   *)
(* text alone; any other message puts nothing on the wire.                 *)
(***************************************************************************)
C17_OnePublishPerDocument ==
    Handled =>
        IF IsDoc(message[1]) /\ Lines(DocText(message[1])) # <<>>
        THEN /\ spc = "loop"
             /\ Len(out) = 1
             /\ out[1].method = "textDocument/publishDiagnostics"
             /\ out[1].uri = message[1].params.uri
             /\ out[1].diagnostics
                   = FailingDiagnostics(dict, DrainWords(LexerNew(DocText(message[1]))))
        ELSE out = <<>>

====
